---------------------------- MODULE Spec2Model ----------------------------
(***************************************************************************)
(* Backtest engine of NeuroQuant-AI (services/marketService.ts):           *)
(* calculateSMA, calculateRSI and the bar-by-bar simulation of runBacktest.*)
(*                                                                         *)
(* JavaScript numbers are modelled as exact rationals <<n, d>> with d > 0  *)
(* in lowest terms, plus NaN == <<0, 0>>.  Every comparison with NaN is    *)
(* FALSE, as in JavaScript; reading an array outside its bounds yields     *)
(* undefined, which behaves as NaN in the comparisons the code makes.      *)
(* Closes are positive, so no division yields an infinity.                 *)
(* A bar's date is its 1-based position in the series; date 0 is a date    *)
(* that no bar carries.                                                    *)
(***************************************************************************)
EXTENDS Integers, Sequences, FiniteSets, TLC

\* ------------------------------------------------------------ bounds ----
MaxLen == 4

\* ------------------------------------------------- number arithmetic ----
NaN == <<0, 0>>

IsNaN(x) == x[2] = 0

Abs(n) == IF n < 0 THEN -n ELSE n

RECURSIVE GCD(_, _)
GCD(a, b) == IF b = 0 THEN a ELSE GCD(b, a % b)

Norm(n, d) ==
    IF d = 0 THEN NaN
    ELSE LET g == GCD(Abs(n), Abs(d))
             s == IF d < 0 THEN -1 ELSE 1
         IN  <<(s * n) \div g, (s * d) \div g>>

Num(n) == <<n, 1>>

Neg(x) == IF IsNaN(x) THEN NaN ELSE <<-x[1], x[2]>>

Add(x, y) ==
    IF IsNaN(x) \/ IsNaN(y) THEN NaN
    ELSE LET g == GCD(x[2], y[2])
             l == (x[2] \div g) * y[2]
         IN  Norm(x[1] * (l \div x[2]) + y[1] * (l \div y[2]), l)

Sub(x, y) == Add(x, Neg(y))

Mul(x, y) ==
    IF IsNaN(x) \/ IsNaN(y) THEN NaN
    ELSE LET g1 == GCD(Abs(x[1]), y[2])
             g2 == GCD(Abs(y[1]), x[2])
         IN  Norm((x[1] \div g1) * (y[1] \div g2), (x[2] \div g2) * (y[2] \div g1))

\* x / y; 0/0 is NaN.  A non-zero numerator over zero does not occur
\* (closes are positive).
Div(x, y) ==
    IF IsNaN(x) \/ IsNaN(y) \/ y[1] = 0 THEN NaN
    ELSE IF y[1] > 0 THEN Mul(x, <<y[2], y[1]>>)
    ELSE Mul(x, <<-y[2], -y[1]>>)

\* sign of a/b - c/d for b, d > 0, by continued fractions
RECURSIVE Cmp(_, _, _, _)
Cmp(a, b, c, d) ==
    LET q1 == a \div b
        r1 == a % b
        q2 == c \div d
        r2 == c % d
    IN  IF q1 # q2 THEN (IF q1 < q2 THEN -1 ELSE 1)
        ELSE IF r1 = 0 /\ r2 = 0 THEN 0
        ELSE IF r1 = 0 THEN -1
        ELSE IF r2 = 0 THEN 1
        ELSE -Cmp(b, r1, d, r2)

Lt(x, y) == ~IsNaN(x) /\ ~IsNaN(y) /\ Cmp(x[1], x[2], y[1], y[2]) < 0
Le(x, y) == ~IsNaN(x) /\ ~IsNaN(y) /\ Cmp(x[1], x[2], y[1], y[2]) <= 0
Gt(x, y) == Lt(y, x)
Ge(x, y) == Le(y, x)
\* x === 0
IsZero(x) == ~IsNaN(x) /\ x[1] = 0

Max(a, b) == IF a >= b THEN a ELSE b

\* arr[k] for a 0-based index k; undefined outside the array
At(arr, k) == IF k >= 0 /\ k < Len(arr) THEN arr[k + 1] ELSE NaN

\* ----------------------------------------------------------- indicators ----
RECURSIVE SumCloses(_, _, _)
\* sum of data[k].close for from <= k < to (0-based), slice(from, to).reduce
SumCloses(data, from, to) ==
    IF from >= to THEN Num(0)
    ELSE Add(SumCloses(data, from, to - 1), Num(data[to].close))

\* calculateSMA with the window shifted one bar into the past
calculateSMAShifted(data, windowSize) ==
    [k \in 1..Len(data) |->
        LET idx == k - 1
        IN  IF idx < windowSize - 1 THEN NaN
            ELSE Div(SumCloses(data, Max(idx - windowSize, 0), idx), Num(windowSize))]

calculateSMA(data, windowSize) ==
    [k \in 1..Len(data) |->
        LET idx == k - 1
        IN  IF idx < windowSize - 1 THEN NaN
            ELSE Div(SumCloses(data, idx - windowSize + 1, idx + 1), Num(windowSize))]


RECURSIVE SeedSums(_, _)
\* <<gains, losses>> after the seed loop has run for i = 1..k
SeedSums(data, k) ==
    IF k < 1 THEN <<Num(0), Num(0)>>
    ELSE LET p == SeedSums(data, k - 1)
             diff == data[k + 1].close - data[k].close
         IN  IF diff > 0 THEN <<Add(p[1], Num(diff)), p[2]>>
             ELSE <<p[1], Add(p[2], Num(Abs(diff)))>>

RECURSIVE Averages(_, _, _)
\* <<avgGain, avgLoss>> as they stand when rsiArray[i] is written, i >= period
Averages(data, period, i) ==
    IF i <= period
    THEN LET s == SeedSums(data, period)
         IN  <<Div(s[1], Num(period)), Div(s[2], Num(period))>>
    ELSE LET a == Averages(data, period, i - 1)
             diff == data[i + 1].close - data[i].close
             gain == IF diff > 0 THEN diff ELSE 0
             loss == IF diff < 0 THEN Abs(diff) ELSE 0
         IN  <<Div(Add(Mul(a[1], Num(period - 1)), Num(gain)), Num(period)),
               Div(Add(Mul(a[2], Num(period - 1)), Num(loss)), Num(period))>>

\* 100 - (100 / (1 + avgGain / (avgLoss === 0 ? 1 : avgLoss)))
RsiValue(avgGain, avgLoss) ==
    LET rs == Div(avgGain, IF IsZero(avgLoss) THEN Num(1) ELSE avgLoss)
    IN  Sub(Num(100), Div(Num(100), Add(Num(1), rs)))

\* a negative period makes the second loop read data[i - 1] with i - 1 < 0
calculateRSIThrows(data, period) == period < 0 /\ Len(data) > 0

calculateRSI(data, period) ==
    [k \in 1..Len(data) |->
        IF Len(data) <= period \/ k - 1 < period THEN NaN
        ELSE LET a == Averages(data, period, k - 1)
             IN  RsiValue(a[1], a[2])]

\* ------------------------------------------------------------- inputs ----
Closes == {1, 2, 3, 4}
AiCloses == {1, 2}
Capitals == {3, 200}
Windows == {<<1, 2>>, <<2, 3>>, <<1, 3>>, <<2, 2>>, <<3, 1>>, <<3, 2>>}
RsiPeriods == {1, 2}
RsiFilters == {<<FALSE, 70, 30>>, <<TRUE, 70, 30>>, <<TRUE, 30, 70>>}

SeriesOf(closes) == [k \in 1..Len(closes) |-> [date |-> k, close |-> closes[k]]]

RECURSIVE SeqsUpTo(_, _)
SeqsUpTo(S, n) ==
    IF n = 0 THEN {<<>>}
    ELSE LET shorter == SeqsUpTo(S, n - 1)
         IN  shorter \cup {Append(q, x) : q \in {r \in shorter : Len(r) = n - 1}, x \in S}

MkConfig(mode, cap, sw, lw, rp, f) ==
    [mode |-> mode, initialCapital |-> cap, shortWindow |-> sw, longWindow |-> lw,
     rsiPeriod |-> rp, useRsiFilter |-> f[1], rsiOverbought |-> f[2], rsiOversold |-> f[3]]

AlgoConfigs ==
    {MkConfig("ALGO", cap, w[1], w[2], rp, f) :
        cap \in Capitals, w \in Windows, rp \in RsiPeriods, f \in RsiFilters}

\* configurations that break the documented constraints, one field each
BadConfigs ==
    {MkConfig(m, 200, 0, 2, 1, <<FALSE, 70, 30>>) : m \in {"ALGO", "AI"}} \cup
    {MkConfig(m, 200, 1, 0, 1, <<FALSE, 70, 30>>) : m \in {"ALGO", "AI"}} \cup
    {MkConfig(m, 200, 1, 2, 0, <<TRUE, 70, 30>>) : m \in {"ALGO", "AI"}} \cup
    {MkConfig(m, 200, 1, 2, -1, <<FALSE, 70, 30>>) : m \in {"ALGO", "AI"}} \cup
    {MkConfig(m, 0, 1, 2, 1, <<FALSE, 70, 30>>) : m \in {"ALGO", "AI"}} \cup
    {MkConfig(m, -200, 1, 2, 1, <<FALSE, 70, 30>>) : m \in {"ALGO", "AI"}}

AiConfigs == {MkConfig("AI", 200, 1, 2, 1, <<FALSE, 70, 30>>)}

\* the end-to-end scenario of the documentation
ScenarioCloses == <<100, 102, 101, 105, 95, 96, 130>>
ScenarioConfigs ==
    {MkConfig("ALGO", 1000, 2, 3, rp, <<FALSE, 70, 30>>) : rp \in {1, 2, 3, 14}}

\* the SMA example of the documentation, with one window longer than the series
SmaExampleCloses == <<10, 20, 30, 40>>
SmaExampleConfigs == {MkConfig("ALGO", 200, 2, 5, 1, <<FALSE, 70, 30>>)}

\* signal lists handed to an AI-mode run: at most one BUY/SELL entry per bar,
\* in date order, optionally followed by one more entry
AiActions == {"BUY", "SELL", "NONE"}
AiExtras ==
    {<<>>, <<[date |-> 0, action |-> "BUY"]>>, <<[date |-> 1, action |-> "HOLD"]>>,
     <<[date |-> 1, action |-> "SELL"]>>}

RECURSIVE ListOf(_, _)
ListOf(f, n) ==
    IF n = 0 THEN <<>>
    ELSE IF f[n] = "NONE" THEN ListOf(f, n - 1)
    ELSE Append(ListOf(f, n - 1), [date |-> n, action |-> f[n]])

SignalLists(n) == {ListOf(f, n) \o x : f \in [1..n -> AiActions], x \in AiExtras}

\* -------------------------------------------------------------- state ----
VARIABLES data, config, aiSignals, pc, i, cash, holdings, trades, history,
          shortSMA, longSMA, rsi, peakBalance, maxDrawdown, aiSignalMap,
          signal, result, error,
          appPc, apiKey, isAiTrading, results, rawOutcome, signalList,
          symbol, loads, marketData, isSimulation, isLoadingData, runs, fetched

\* state of the App component around one call of handleRunBacktest
appVars == <<appPc, apiKey, isAiTrading, results, rawOutcome, signalList>>

\* state of the App component around its data loading and its runs in flight
uiVars == <<symbol, loads, marketData, isSimulation, isLoadingData, runs, fetched>>

vars == <<data, config, aiSignals, pc, i, cash, holdings, trades, history,
          shortSMA, longSMA, rsi, peakBalance, maxDrawdown, aiSignalMap,
          signal, result, error, appVars, uiVars>>

\* useState<MarketData[]>([]): no series stored yet
NoData == [symbol |-> "none", request |-> 0, len |-> 0]

NoFetch == [outcome |-> [kind |-> "none", len |-> 0],
            result |-> [rejected |-> FALSE, len |-> 0, isSimulation |-> FALSE]]

\* the App's loading state where only the engine or one handler call is modelled
UiAtRest ==
    /\ symbol = "BTC"
    /\ loads = <<>>
    /\ marketData = NoData
    /\ isSimulation = FALSE
    /\ isLoadingData = FALSE
    /\ runs = <<>>
    /\ fetched = NoFetch

NoOutcome == [kind |-> "pending", signals |-> <<>>]

NoResult == [trades |-> <<>>, finalBalance |-> NaN, totalReturn |-> NaN,
             winRate |-> NaN, maxDrawdown |-> NaN, history |-> <<>>]

Inputs ==
    \/ /\ \E c \in SeqsUpTo(Closes, MaxLen) : data = SeriesOf(c)
       /\ config \in AlgoConfigs
       /\ aiSignals = <<>>
    \/ /\ \E c \in SeqsUpTo(AiCloses, MaxLen) : data = SeriesOf(c)
       /\ config \in AiConfigs
       /\ aiSignals \in SignalLists(Len(data))
    \/ /\ \E c \in SeqsUpTo(AiCloses, MaxLen) : data = SeriesOf(c)
       /\ config \in BadConfigs
       /\ aiSignals = <<>>
    \/ /\ data = SeriesOf(ScenarioCloses)
       /\ config \in ScenarioConfigs
       /\ aiSignals = <<>>
    \/ /\ data = SeriesOf(SmaExampleCloses)
       /\ config \in SmaExampleConfigs
       /\ aiSignals = <<>>

\* runBacktest called directly: entered, locals initialised
Init ==
    /\ Inputs
    /\ appPc = "direct"
    /\ apiKey = FALSE
    /\ isAiTrading = FALSE
    /\ results = <<>>
    /\ rawOutcome = NoOutcome
    /\ signalList = <<>>
    /\ pc = "start"
    /\ i = 0
    /\ cash = Num(config.initialCapital)
    /\ holdings = Num(0)
    /\ trades = <<>>
    /\ history = <<>>
    /\ shortSMA = <<>>
    /\ longSMA = <<>>
    /\ rsi = <<>>
    /\ peakBalance = Num(config.initialCapital)
    /\ maxDrawdown = Num(0)
    /\ aiSignalMap = <<>>
    /\ signal = "HOLD"
    /\ result = NoResult
    /\ error = "none"
    /\ UiAtRest

\* a signal map in which the first entry of a date wins
MapOfFirstWins(sigs) ==
    LET dates == {sigs[k].date : k \in DOMAIN sigs}
        first(d) == CHOOSE k \in DOMAIN sigs :
                       /\ sigs[k].date = d
                       /\ \A j \in DOMAIN sigs : j < k => sigs[j].date # d
    IN  [d \in dates |-> sigs[first(d)]]

\* aiSignals.forEach(s => aiSignalMap.set(s.date, s)): the last entry of a date wins
MapOf(sigs) ==
    LET dates == {sigs[k].date : k \in DOMAIN sigs}
        last(d) == CHOOSE k \in DOMAIN sigs :
                      /\ sigs[k].date = d
                      /\ \A j \in DOMAIN sigs : j > k => sigs[j].date # d
    IN  [d \in dates |-> sigs[last(d)]]

\* indicators and the signal map
Setup ==
    /\ pc = "start"
    /\ shortSMA' = calculateSMA(data, config.shortWindow)
    /\ longSMA' = calculateSMA(data, config.longWindow)
    /\ IF calculateRSIThrows(data, config.rsiPeriod)
       THEN /\ pc' = "error"
            /\ error' = "TypeError"
            /\ UNCHANGED <<rsi, aiSignalMap>>
       ELSE /\ rsi' = calculateRSI(data, config.rsiPeriod)
            /\ aiSignalMap' = IF config.mode = "AI" THEN MapOf(aiSignals) ELSE <<>>
            /\ pc' = "loop"
            /\ error' = error
    /\ UNCHANGED <<data, config, aiSignals, i, cash, holdings, trades, history,
                   peakBalance, maxDrawdown, signal, result>>
    /\ UNCHANGED appVars
    /\ UNCHANGED uiVars


\* ----------------------------------------------------- signal resolver ----
Price(k) == Num(data[k + 1].close)
DateAt(k) == data[k + 1].date

WarmUp == Max(config.longWindow, config.rsiPeriod)

\* crossoverBuy that forgets the condition on the prior bar
crossoverBuyNoPrior(k) == Gt(At(shortSMA, k), At(longSMA, k))

\* crossoverBuy with a strict comparison on the prior bar
crossoverBuyStrictPrior(k) ==
    /\ Lt(At(shortSMA, k - 1), At(longSMA, k - 1))
    /\ Gt(At(shortSMA, k), At(longSMA, k))

crossoverBuy(k) ==
    /\ Le(At(shortSMA, k - 1), At(longSMA, k - 1))
    /\ Gt(At(shortSMA, k), At(longSMA, k))

crossoverSell(k) ==
    /\ Ge(At(shortSMA, k - 1), At(longSMA, k - 1))
    /\ Lt(At(shortSMA, k), At(longSMA, k))

rsiBuyAllowed(k) == ~config.useRsiFilter \/ Lt(At(rsi, k), Num(config.rsiOversold))

\* rsiSellForce with the comparison reversed
rsiSellForceReversed(k) ==
    config.useRsiFilter /\ Lt(At(rsi, k), Num(config.rsiOverbought))

rsiSellForce(k) == config.useRsiFilter /\ Gt(At(rsi, k), Num(config.rsiOverbought))

AlgoSignal(k) ==
    IF crossoverBuy(k) /\ rsiBuyAllowed(k) THEN "BUY"
    ELSE IF crossoverSell(k) \/ rsiSellForce(k) THEN "SELL"
    ELSE "HOLD"

AiDecision(date) ==
    IF date \in DOMAIN aiSignalMap THEN aiSignalMap[date].action ELSE "HOLD"

\* ------------------------------------------------- portfolio simulator ----
\* amountToBuy that commits all of the cash
amountToBuyAll(c, price) == Div(c, price)

amountToBuy(c, price) == Div(Mul(c, <<99, 100>>), price)

\* BuyFires without the tests cash > price and amountToBuy > 0
BuyFiresNoGuards(sig, c, price) ==
    /\ sig = "BUY"
    /\ Le(Mul(amountToBuy(c, price), price), c)

BuyFires(sig, c, price) ==
    /\ sig = "BUY"
    /\ Gt(c, price)
    /\ Gt(amountToBuy(c, price), Num(0))
    /\ Le(Mul(amountToBuy(c, price), price), c)

\* SellFires without the test holdings > 0
SellFiresAlways(sig, c, h, price) ==
    /\ ~(sig = "BUY" /\ Gt(c, price))
    /\ sig = "SELL"

SellFires(sig, c, h, price) ==
    /\ ~(sig = "BUY" /\ Gt(c, price))
    /\ sig = "SELL"
    /\ Gt(h, Num(0))

\* AfterTrade that puts the new trade at the head of the list
AfterTradePrepend(sig, c, h, tr, price, date) ==
    IF BuyFires(sig, c, price)
    THEN LET amt == amountToBuy(c, price)
             c1 == Sub(c, Mul(amt, price))
             h1 == Add(h, amt)
         IN  [cash |-> c1, holdings |-> h1,
              trades |-> <<[date |-> date, type |-> "BUY", price |-> price,
                            amount |-> amt,
                            balanceAfter |-> Add(c1, Mul(h1, price))]>> \o tr]
    ELSE IF SellFires(sig, c, h, price)
    THEN LET c1 == Add(c, Mul(h, price))
         IN  [cash |-> c1, holdings |-> Num(0),
              trades |-> <<[date |-> date, type |-> "SELL", price |-> price,
                            amount |-> h, balanceAfter |-> c1]>> \o tr]
    ELSE [cash |-> c, holdings |-> h, trades |-> tr]

\* AfterTrade with the proceeds of a SELL subtracted instead of added
AfterTradeSignSlip(sig, c, h, tr, price, date) ==
    IF BuyFires(sig, c, price)
    THEN LET amt == amountToBuy(c, price)
             c1 == Sub(c, Mul(amt, price))
             h1 == Add(h, amt)
         IN  [cash |-> c1, holdings |-> h1,
              trades |-> Append(tr, [date |-> date, type |-> "BUY", price |-> price,
                                     amount |-> amt,
                                     balanceAfter |-> Add(c1, Mul(h1, price))])]
    ELSE IF SellFires(sig, c, h, price)
    THEN LET c1 == Sub(c, Mul(h, price))
         IN  [cash |-> c1, holdings |-> Num(0),
              trades |-> Append(tr, [date |-> date, type |-> "SELL", price |-> price,
                                     amount |-> h, balanceAfter |-> c1])]
    ELSE [cash |-> c, holdings |-> h, trades |-> tr]

\* AfterTrade with a BUY's balanceAfter taken before holdings are increased
AfterTradeStaleHoldings(sig, c, h, tr, price, date) ==
    IF BuyFires(sig, c, price)
    THEN LET amt == amountToBuy(c, price)
             c1 == Sub(c, Mul(amt, price))
             h1 == Add(h, amt)
         IN  [cash |-> c1, holdings |-> h1,
              trades |-> Append(tr, [date |-> date, type |-> "BUY", price |-> price,
                                     amount |-> amt,
                                     balanceAfter |-> Add(c1, Mul(h, price))])]
    ELSE IF SellFires(sig, c, h, price)
    THEN LET c1 == Add(c, Mul(h, price))
         IN  [cash |-> c1, holdings |-> Num(0),
              trades |-> Append(tr, [date |-> date, type |-> "SELL", price |-> price,
                                     amount |-> h, balanceAfter |-> c1])]
    ELSE [cash |-> c, holdings |-> h, trades |-> tr]

\* cash, holdings and the trade list after the trade step of one bar
AfterTrade(sig, c, h, tr, price, date) ==
    IF BuyFires(sig, c, price)
    THEN LET amt == amountToBuy(c, price)
             c1 == Sub(c, Mul(amt, price))
             h1 == Add(h, amt)
         IN  [cash |-> c1, holdings |-> h1,
              trades |-> Append(tr, [date |-> date, type |-> "BUY", price |-> price,
                                     amount |-> amt,
                                     balanceAfter |-> Add(c1, Mul(h1, price))])]
    ELSE IF SellFires(sig, c, h, price)
    THEN LET c1 == Add(c, Mul(h, price))
         IN  [cash |-> c1, holdings |-> Num(0),
              trades |-> Append(tr, [date |-> date, type |-> "SELL", price |-> price,
                                     amount |-> h, balanceAfter |-> c1])]
    ELSE [cash |-> c, holdings |-> h, trades |-> tr]

NewPeak(peak, value) == IF Gt(value, peak) THEN value ELSE peak

\* NewMaxDrawdown that keeps the latest drawdown instead of the largest
NewMaxDrawdownLatest(md, peak, value) == Div(Sub(peak, value), peak)

NewMaxDrawdown(md, peak, value) ==
    LET drawdown == Div(Sub(peak, value), peak)
    IN  IF Gt(drawdown, md) THEN drawdown ELSE md

\* one pass through the loop body past the warm-up test, decision sig
ProcessBar(sig) ==
    LET price == Price(i)
        date == DateAt(i)
        a == AfterTrade(sig, cash, holdings, trades, price, date)
        currentTotalValue == Add(a.cash, Mul(a.holdings, price))
        peak == NewPeak(peakBalance, currentTotalValue)
    IN  /\ signal' = sig
        /\ cash' = a.cash
        /\ holdings' = a.holdings
        /\ trades' = a.trades
        /\ history' = Append(history, [date |-> date, balance |-> currentTotalValue])
        /\ peakBalance' = peak
        /\ maxDrawdown' = NewMaxDrawdown(maxDrawdown, peak, currentTotalValue)
        /\ i' = i + 1
        /\ UNCHANGED <<data, config, aiSignals, pc, shortSMA, longSMA, rsi,
                       aiSignalMap, result, error>>
        /\ UNCHANGED appVars
        /\ UNCHANGED uiVars

\* ALGO bar inside the warm-up period: equity recorded as cash, no decision
\* SkipBar that leaves the equity curve without an entry for the bar
SkipBarNoHistory ==
    /\ pc = "loop"
    /\ i < Len(data)
    /\ config.mode = "ALGO"
    /\ i < WarmUp
    /\ signal' = "HOLD"
    /\ i' = i + 1
    /\ UNCHANGED <<data, config, aiSignals, pc, cash, holdings, trades, history,
                   shortSMA, longSMA, rsi, peakBalance, maxDrawdown, aiSignalMap,
                   result, error>>
    /\ UNCHANGED appVars
    /\ UNCHANGED uiVars

SkipBar ==
    /\ pc = "loop"
    /\ i < Len(data)
    /\ config.mode = "ALGO"
    /\ i < WarmUp
    /\ history' = Append(history, [date |-> DateAt(i), balance |-> cash])
    /\ signal' = "HOLD"
    /\ i' = i + 1
    /\ UNCHANGED <<data, config, aiSignals, pc, cash, holdings, trades, shortSMA,
                   longSMA, rsi, peakBalance, maxDrawdown, aiSignalMap, result, error>>
    /\ UNCHANGED appVars
    /\ UNCHANGED uiVars

AlgoBar ==
    /\ pc = "loop"
    /\ i < Len(data)
    /\ config.mode # "AI"
    /\ ~(config.mode = "ALGO" /\ i < WarmUp)
    /\ ProcessBar(AlgoSignal(i))

AiBar ==
    /\ pc = "loop"
    /\ i < Len(data)
    /\ config.mode = "AI"
    /\ ProcessBar(AiDecision(DateAt(i)))

\* --------------------------------------------------- report aggregator ----
EntryPrice(tr, k) ==
    LET buys == {j \in 1..(k - 1) : tr[j].type = "BUY"}
    IN  IF buys = {} THEN Num(0)
        ELSE tr[CHOOSE j \in buys : \A m \in buys : m <= j].price

\* profitableTrades that counts a SELL at its entry price as profitable
profitableTradesInclusive(tr) ==
    Cardinality({k \in DOMAIN tr :
                    tr[k].type = "SELL" /\ Ge(tr[k].price, EntryPrice(tr, k))})

profitableTrades(tr) ==
    Cardinality({k \in DOMAIN tr :
                    tr[k].type = "SELL" /\ Gt(tr[k].price, EntryPrice(tr, k))})

sellTradesCount(tr) == Cardinality({k \in DOMAIN tr : tr[k].type = "SELL"})

\* winRateOf without the guard for an empty set of SELL trades
winRateOfUnguarded(tr) ==
    Mul(Div(Num(profitableTrades(tr)), Num(sellTradesCount(tr))), Num(100))

winRateOf(tr) ==
    IF sellTradesCount(tr) > 0
    THEN Mul(Div(Num(profitableTrades(tr)), Num(sellTradesCount(tr))), Num(100))
    ELSE Num(0)

\* data[data.length - 1].close on an empty series reads a property of undefined
ReportThrow ==
    /\ pc = "loop"
    /\ i >= Len(data)
    /\ Len(data) = 0
    /\ pc' = "error"
    /\ error' = "TypeError"
    /\ UNCHANGED <<data, config, aiSignals, i, cash, holdings, trades, history,
                   shortSMA, longSMA, rsi, peakBalance, maxDrawdown, aiSignalMap,
                   signal, result>>
    /\ UNCHANGED appVars
    /\ UNCHANGED uiVars

\* Report that closes an open position with a final SELL
ReportAutoClose ==
    /\ pc = "loop"
    /\ i >= Len(data)
    /\ Len(data) > 0
    /\ LET price == Price(Len(data) - 1)
           finalBalance == Add(cash, Mul(holdings, price))
           cap == Num(config.initialCapital)
           closed == IF Gt(holdings, Num(0))
                     THEN Append(trades, [date |-> DateAt(Len(data) - 1), type |-> "SELL",
                                          price |-> price, amount |-> holdings,
                                          balanceAfter |-> finalBalance])
                     ELSE trades
       IN  result' = [trades |-> closed,
                      finalBalance |-> finalBalance,
                      totalReturn |-> Mul(Div(Sub(finalBalance, cap), cap), Num(100)),
                      winRate |-> winRateOf(closed),
                      maxDrawdown |-> Mul(maxDrawdown, Num(100)),
                      history |-> history]
    /\ pc' = "done"
    /\ UNCHANGED <<data, config, aiSignals, i, cash, holdings, trades, history,
                   shortSMA, longSMA, rsi, peakBalance, maxDrawdown, aiSignalMap,
                   signal, error>>
    /\ UNCHANGED appVars
    /\ UNCHANGED uiVars

Report ==
    /\ pc = "loop"
    /\ i >= Len(data)
    /\ Len(data) > 0
    /\ LET finalBalance == Add(cash, Mul(holdings, Price(Len(data) - 1)))
           cap == Num(config.initialCapital)
       IN  result' = [trades |-> trades,
                      finalBalance |-> finalBalance,
                      totalReturn |-> Mul(Div(Sub(finalBalance, cap), cap), Num(100)),
                      winRate |-> winRateOf(trades),
                      maxDrawdown |-> Mul(maxDrawdown, Num(100)),
                      history |-> history]
    /\ pc' = "done"
    /\ UNCHANGED <<data, config, aiSignals, i, cash, holdings, trades, history,
                   shortSMA, longSMA, rsi, peakBalance, maxDrawdown, aiSignalMap,
                   signal, error>>
    /\ UNCHANGED appVars
    /\ UNCHANGED uiVars

Next == Setup \/ SkipBar \/ AlgoBar \/ AiBar \/ ReportThrow \/ Report

Spec == Init /\ [][Next]_vars


\* ------------------------------------------- App: handleRunBacktest ----
\* what the provider call of generateAiTradingSignals can end in: the call
\* rejects, returns no text, returns text that JSON.parse or the map over it
\* rejects, or returns a JSON array of {date, action} entries
RawActions == {"BUY", "SELL", "HOLD", "NONE"}
RawExtras == {<<>>, <<[date |-> 0, action |-> "BUY"]>>}
RawLists(n) == {ListOf(f, n) \o x : f \in [1..n -> RawActions], x \in RawExtras}

ProviderOutcomes(n) ==
    {[kind |-> k, signals |-> <<>>] : k \in {"throw", "empty", "malformed"}} \cup
    {[kind |-> "list", signals |-> raw] : raw \in RawLists(n)}

\* the value generateAiTradingSignals resolves to
\* generateAiTradingSignals that answers a failed request with a default BUY
generateAiTradingSignalsDefaultBuy(out) ==
    IF out.kind = "list"
    THEN [k \in DOMAIN out.signals |->
            [date |-> out.signals[k].date,
             action |-> IF out.signals[k].action = "BUY" THEN "BUY" ELSE "SELL"]]
    ELSE <<[date |-> 1, action |-> "BUY"]>>

generateAiTradingSignals(out) ==
    IF out.kind = "list"
    THEN [k \in DOMAIN out.signals |->
            [date |-> out.signals[k].date,
             action |-> IF out.signals[k].action = "BUY" THEN "BUY" ELSE "SELL"]]
    ELSE <<>>

AppConfigs ==
    AiConfigs \cup {MkConfig("ALGO", 200, 1, 2, 1, <<FALSE, 70, 30>>)}

\* the App with market data loaded, before handleRunBacktest runs
AppInit ==
    /\ \E c \in SeqsUpTo(AiCloses, MaxLen) : data = SeriesOf(c)
    /\ config \in AppConfigs
    /\ apiKey \in BOOLEAN
    /\ appPc = "idle"
    /\ isAiTrading = FALSE
    /\ results = <<>>
    /\ rawOutcome = NoOutcome
    /\ signalList = <<>>
    /\ aiSignals = <<>>
    /\ pc = "idle"
    /\ i = 0
    /\ cash = Num(config.initialCapital)
    /\ holdings = Num(0)
    /\ trades = <<>>
    /\ history = <<>>
    /\ shortSMA = <<>>
    /\ longSMA = <<>>
    /\ rsi = <<>>
    /\ peakBalance = Num(config.initialCapital)
    /\ maxDrawdown = Num(0)
    /\ aiSignalMap = <<>>
    /\ signal = "HOLD"
    /\ result = NoResult
    /\ error = "none"
    /\ UiAtRest

\* runBacktest(marketData, config, sigs) is entered
EngineEntry(sigs) ==
    /\ aiSignals' = sigs
    /\ pc' = "start"
    /\ i' = 0
    /\ cash' = Num(config.initialCapital)
    /\ holdings' = Num(0)
    /\ trades' = <<>>
    /\ history' = <<>>
    /\ peakBalance' = Num(config.initialCapital)
    /\ maxDrawdown' = Num(0)
    /\ UNCHANGED <<data, config, shortSMA, longSMA, rsi, aiSignalMap, signal,
                   result, error>>

EngineIdle ==
    UNCHANGED <<data, config, aiSignals, pc, i, cash, holdings, trades, history,
                shortSMA, longSMA, rsi, peakBalance, maxDrawdown, aiSignalMap,
                signal, result, error>>

\* handleRunBacktest up to its first await (AI) or to the engine call (ALGO)
HandleRunBacktest ==
    /\ appPc = "idle"
    /\ IF Len(data) = 0
       THEN /\ appPc' = "returned"
            /\ EngineIdle
            /\ UNCHANGED isAiTrading
       ELSE IF config.mode = "AI"
       THEN /\ IF ~apiKey
               THEN appPc' = "returned" /\ UNCHANGED isAiTrading
               ELSE appPc' = "steps" /\ isAiTrading' = TRUE
            /\ EngineIdle
       ELSE /\ appPc' = "running"
            /\ EngineEntry(<<>>)
            /\ UNCHANGED isAiTrading
    /\ UNCHANGED <<apiKey, results, rawOutcome, signalList>>
    /\ UNCHANGED uiVars

\* the four learning-step timers have elapsed; generateAiTradingSignals is called
StepsElapse ==
    /\ appPc = "steps"
    /\ appPc' = "awaitSignals"
    /\ EngineIdle
    /\ UNCHANGED <<apiKey, isAiTrading, results, rawOutcome, signalList>>
    /\ UNCHANGED uiVars

\* the promise of generateAiTradingSignals settles
SignalsResolve ==
    /\ appPc = "awaitSignals"
    /\ \E out \in ProviderOutcomes(Len(data)) :
          /\ rawOutcome' = out
          /\ signalList' = <<generateAiTradingSignals(out)>>
    /\ appPc' = "resolved"
    /\ EngineIdle
    /\ UNCHANGED <<apiKey, isAiTrading, results>>
    /\ UNCHANGED uiVars

\* InvokeEngine without the await: the engine starts while the promise is pending
InvokeEngineNoAwait ==
    /\ appPc \in {"awaitSignals", "resolved"}
    /\ EngineEntry(IF signalList = <<>> THEN <<>> ELSE signalList[1])
    /\ appPc' = "running"
    /\ UNCHANGED <<apiKey, isAiTrading, results, rawOutcome, signalList>>
    /\ UNCHANGED uiVars

\* the continuation after the await: runBacktest(marketData, config, aiSignals)
InvokeEngine ==
    /\ appPc = "resolved"
    /\ EngineEntry(signalList[1])
    /\ appPc' = "running"
    /\ UNCHANGED <<apiKey, isAiTrading, results, rawOutcome, signalList>>
    /\ UNCHANGED uiVars

\* setResults(res), and in AI mode setIsAiTrading(false)
StoreResult ==
    /\ appPc = "running"
    /\ pc = "done"
    /\ results' = <<result>>
    /\ isAiTrading' = FALSE
    /\ appPc' = "finished"
    /\ EngineIdle
    /\ UNCHANGED <<apiKey, rawOutcome, signalList>>
    /\ UNCHANGED uiVars

\* the series is non-empty and rsiPeriod is not negative here, so the engine
\* does not throw inside the App
AppNext ==
    \/ HandleRunBacktest \/ StepsElapse \/ SignalsResolve \/ InvokeEngine
    \/ Setup \/ SkipBar \/ AlgoBar \/ AiBar \/ Report \/ StoreResult

AppSpec == AppInit /\ [][AppNext]_vars

\* ------------------------------------- the App: loading and its runs ----
Symbols == {"BTC", "ETH"}
MaxLoads == 3
MaxRuns == 2
SyntheticDays == 365
LiveLens == {1, 2}

\* how the live request of fetchMarketData ends
FetchOutcomes ==
    {[kind |-> k, len |-> 0] : k \in {"throw", "notOk", "badJson"}} \cup
    {[kind |-> "list", len |-> n] : n \in {0} \cup LiveLens}

\* fetchMarketData that returns an empty live series as it is
fetchMarketDataNoEmptyTest(out) ==
    IF out.kind = "list"
    THEN [rejected |-> FALSE, len |-> out.len, isSimulation |-> FALSE]
    ELSE [rejected |-> FALSE, len |-> SyntheticDays, isSimulation |-> TRUE]

\* what the promise of fetchMarketData settles to: the live series, or from
\* the catch block the synthetic one
fetchMarketData(out) ==
    IF out.kind = "list" /\ out.len # 0
    THEN [rejected |-> FALSE, len |-> out.len, isSimulation |-> FALSE]
    ELSE [rejected |-> FALSE, len |-> SyntheticDays, isSimulation |-> TRUE]

\* runBacktest throws on a series of this length with this configuration
runBacktestThrows(len, cfg) == len = 0 \/ cfg.rsiPeriod < 0

EngineIdleButConfig ==
    UNCHANGED <<data, aiSignals, pc, i, cash, holdings, trades, history,
                shortSMA, longSMA, rsi, peakBalance, maxDrawdown, aiSignalMap,
                signal, result, error>>

UiState == [results |-> results, isAiTrading |-> isAiTrading, runs |-> runs]

\* handleRunBacktest called with the values of one render, up to its first
\* await (AI) or to its end (ALGO)
AfterHandleRun(md, cfg, key, st) ==
    IF md.len = 0 THEN st
    ELSE IF cfg.mode = "AI"
    THEN IF ~key THEN st
         ELSE [st EXCEPT !.isAiTrading = TRUE,
                         !.runs = Append(@, [pc |-> "steps", request |-> md.request,
                                             len |-> md.len, config |-> cfg])]
    ELSE IF runBacktestThrows(md.len, cfg) THEN st
    ELSE [st EXCEPT !.results = <<[request |-> md.request]>>]

\* the "Initial Run" effect of a render with these values
InitialRunEffect(md, cfg, key, res, loading, trading, st) ==
    IF md.len > 0 /\ res = <<>> /\ ~loading /\ ~trading
    THEN AfterHandleRun(md, cfg, key, st)
    ELSE st

Commit(st) ==
    /\ results' = st.results
    /\ isAiTrading' = st.isAiTrading
    /\ runs' = st.runs

UiFrame ==
    /\ EngineIdleButConfig
    /\ UNCHANGED <<appPc>>

\* the App after mounting: the first loadData is in flight
UiInit ==
    /\ data = <<>>
    /\ config \in AppConfigs
    /\ apiKey \in BOOLEAN
    /\ appPc = "idle"
    /\ isAiTrading = FALSE
    /\ results = <<>>
    /\ rawOutcome = NoOutcome
    /\ signalList = <<>>
    /\ aiSignals = <<>>
    /\ pc = "idle"
    /\ i = 0
    /\ cash = Num(config.initialCapital)
    /\ holdings = Num(0)
    /\ trades = <<>>
    /\ history = <<>>
    /\ shortSMA = <<>>
    /\ longSMA = <<>>
    /\ rsi = <<>>
    /\ peakBalance = Num(config.initialCapital)
    /\ maxDrawdown = Num(0)
    /\ aiSignalMap = <<>>
    /\ signal = "HOLD"
    /\ result = NoResult
    /\ error = "none"
    /\ symbol = "BTC"
    /\ loads = <<[symbol |-> "BTC", status |-> "pending"]>>
    /\ marketData = NoData
    /\ isSimulation = FALSE
    /\ isLoadingData = TRUE
    /\ runs = <<>>
    /\ fetched = NoFetch

\* the symbol or exchange select changes: loadData starts, then the
\* "Initial Run" effect runs with the values of that render
ChangeSymbol ==
    /\ ~isAiTrading
    /\ Len(loads) < MaxLoads
    /\ Len(runs) < MaxRuns
    /\ \E s \in Symbols \ {symbol} :
          /\ symbol' = s
          /\ loads' = Append(loads, [symbol |-> s, status |-> "pending"])
    /\ isLoadingData' = TRUE
    /\ Commit(InitialRunEffect(marketData, config, apiKey, results, isLoadingData,
                               isAiTrading, [UiState EXCEPT !.results = <<>>]))
    /\ UiFrame
    /\ UNCHANGED <<config, apiKey, rawOutcome, signalList, marketData, isSimulation,
                   fetched>>

\* a mode button: handleRunBacktest is rebuilt and the effect runs
ToggleMode ==
    /\ Len(runs) < MaxRuns
    /\ \E m \in {"ALGO", "AI"} \ {config.mode} :
          /\ config' = [config EXCEPT !.mode = m]
          /\ Commit(InitialRunEffect(marketData, config', apiKey, results,
                                     isLoadingData, isAiTrading, UiState))
    /\ UiFrame
    /\ UNCHANGED <<apiKey, rawOutcome, signalList, symbol, loads, marketData,
                   isSimulation, isLoadingData, fetched>>

\* handleSaveSettings: handleRunBacktest is rebuilt and the effect runs
SaveSettings ==
    /\ Len(runs) < MaxRuns
    /\ apiKey' = ~apiKey
    /\ Commit(InitialRunEffect(marketData, config, apiKey', results, isLoadingData,
                               isAiTrading, UiState))
    /\ UiFrame
    /\ UNCHANGED <<config, rawOutcome, signalList, symbol, loads, marketData,
                   isSimulation, isLoadingData, fetched>>

\* the Run button pressed although an AI run is in flight
ClickRunNotDisabled ==
    /\ Len(runs) < MaxRuns
    /\ Commit(AfterHandleRun(marketData, config, apiKey, UiState))
    /\ UiFrame
    /\ UNCHANGED <<config, apiKey, rawOutcome, signalList, symbol, loads, marketData,
                   isSimulation, isLoadingData, fetched>>

\* the Run button, disabled while isAiTrading
ClickRun ==
    /\ ~isAiTrading
    /\ Len(runs) < MaxRuns
    /\ Commit(AfterHandleRun(marketData, config, apiKey, UiState))
    /\ UiFrame
    /\ UNCHANGED <<config, apiKey, rawOutcome, signalList, symbol, loads, marketData,
                   isSimulation, isLoadingData, fetched>>

\* the continuation of loadData after its await, for the request numbered k
FetchResolves(k) ==
    /\ k \in DOMAIN loads
    /\ loads[k].status = "pending"
    /\ Len(runs) < MaxRuns
    /\ \E out \in FetchOutcomes :
          LET r == fetchMarketData(out)
              md == IF r.rejected THEN marketData
                    ELSE [symbol |-> loads[k].symbol, request |-> k, len |-> r.len]
          IN  /\ fetched' = [outcome |-> out, result |-> r]
              /\ marketData' = md
              /\ isSimulation' = IF r.rejected THEN isSimulation ELSE r.isSimulation
              /\ Commit(InitialRunEffect(md, config, apiKey, results, FALSE,
                                         isAiTrading, UiState))
    /\ loads' = [loads EXCEPT ![k].status = "done"]
    /\ isLoadingData' = FALSE
    /\ UiFrame
    /\ UNCHANGED <<config, apiKey, rawOutcome, signalList, symbol>>

Without(seq, r) == [k \in 1..(Len(seq) - 1) |-> IF k < r THEN seq[k] ELSE seq[k + 1]]

\* the four learning-step timers of run r have elapsed
RunStepsElapse(r) ==
    /\ r \in DOMAIN runs
    /\ runs[r].pc = "steps"
    /\ runs' = [runs EXCEPT ![r].pc = "awaitSignals"]
    /\ UiFrame
    /\ UNCHANGED <<config, apiKey, isAiTrading, results, rawOutcome, signalList,
                   symbol, loads, marketData, isSimulation, isLoadingData, fetched>>

\* RunCompletes that stores the result and leaves isAiTrading set
RunCompletesNoReset(r) ==
    /\ r \in DOMAIN runs
    /\ runs[r].pc = "awaitSignals"
    /\ \E out \in ProviderOutcomes(1) :
          /\ rawOutcome' = out
          /\ signalList' = <<generateAiTradingSignals(out)>>
    /\ results' = <<[request |-> runs[r].request]>>
    /\ runs' = Without(runs, r)
    /\ UiFrame
    /\ UNCHANGED <<config, apiKey, isAiTrading, symbol, loads, marketData,
                   isSimulation, isLoadingData, fetched>>

\* generateAiTradingSignals settles for run r; its continuation calls
\* runBacktest, stores the result and clears isAiTrading
RunCompletes(r) ==
    /\ r \in DOMAIN runs
    /\ runs[r].pc = "awaitSignals"
    /\ \E out \in ProviderOutcomes(1) :
          /\ rawOutcome' = out
          /\ signalList' = <<generateAiTradingSignals(out)>>
    /\ IF runBacktestThrows(runs[r].len, runs[r].config)
       THEN UNCHANGED <<results, isAiTrading>>
       ELSE /\ results' = <<[request |-> runs[r].request]>>
            /\ isAiTrading' = FALSE
    /\ runs' = Without(runs, r)
    /\ UiFrame
    /\ UNCHANGED <<config, apiKey, symbol, loads, marketData, isSimulation,
                   isLoadingData, fetched>>

UiNext ==
    \/ ChangeSymbol \/ ToggleMode \/ SaveSettings \/ ClickRun
    \/ \E k \in 1..MaxLoads : FetchResolves(k)
    \/ \E r \in 1..MaxRuns : RunStepsElapse(r)
    \/ \E r \in 1..MaxRuns : RunCompletes(r)

UiSpec == UiInit /\ [][UiNext]_vars

\* timers fire and the provider request settles
UiFairness ==
    \A r \in 1..MaxRuns : WF_vars(RunStepsElapse(r)) /\ WF_vars(RunCompletes(r))

UiFairSpec == UiSpec /\ UiFairness

\* -------------------------------------------------------------- claims ----
IsScenario == data = SeriesOf(ScenarioCloses)
TradeTypes == [k \in DOMAIN trades |-> trades[k].type]
TradeAppended == Len(trades') = Len(trades) + 1

\* C1: after any prefix of the simulation the trade list never contains two
\* adjacent trades of the same type (no BUY directly after a BUY, no SELL
\* directly after a SELL).
NoAdjacentSameType ==
    \A k \in 1..(Len(trades) - 1) : trades[k].type # trades[k + 1].type

\* C2: holdings are never negative, and a BUY decision arriving while LONG
\* (holdings > 0) or a SELL decision arriving while FLAT (holdings = 0) appends
\* no trade and leaves cash and holdings unchanged.
WrongSideDecisionIsNoOp ==
    [](Ge(holdings, Num(0))) /\
    [][(/\ pc = "loop"
        /\ i' = i + 1
        /\ \/ signal' = "BUY" /\ Gt(holdings, Num(0))
           \/ signal' = "SELL" /\ IsZero(holdings))
       => (trades' = trades /\ cash' = cash /\ holdings' = holdings)]_vars

\* C3: with initialCapital > 0 (closes are positive) cash >= 0 and
\* holdings >= 0 after every bar.
CashAndHoldingsNonNegative ==
    config.initialCapital > 0 => Ge(cash, Num(0)) /\ Ge(holdings, Num(0))

CashAndHoldingsWitness ==
    /\ config.initialCapital > 0
    /\ Len(trades) >= 1
    /\ Gt(holdings, Num(0))
    /\ Lt(cash, Num(config.initialCapital))

\* C4: every recorded trade has balanceAfter equal to cash + holdings * close
\* evaluated just before the trade at the same bar's close, and equal to the
\* history balance recorded for that bar.
TradeConservesEquity ==
    [][TradeAppended =>
        LET t == trades'[Len(trades')]
        IN  /\ t.balanceAfter = Add(cash, Mul(holdings, Price(i)))
            /\ t.balanceAfter = history'[Len(history')].balance]_vars

TradeConservesEquityWitness ==
    /\ Len(trades) >= 2
    /\ trades[Len(trades) - 1].type = "BUY"
    /\ trades[Len(trades)].type = "SELL"

\* C5: the running maxDrawdown is non-negative and never decreases from one
\* bar to the next; peakBalance is at least every equity value recorded so
\* far and at least initialCapital.
DrawdownMonotone ==
    []( /\ Ge(maxDrawdown, Num(0))
        /\ Ge(peakBalance, Num(config.initialCapital))
        /\ \A k \in DOMAIN history : Ge(peakBalance, history[k].balance)) /\
    [][Le(maxDrawdown, maxDrawdown')]_vars

\* a bar has been processed whose own drawdown is below the running maximum
DrawdownMonotoneWitness ==
    /\ Len(history) >= 2
    /\ Gt(maxDrawdown, Num(0))
    /\ Gt(maxDrawdown,
          Div(Sub(peakBalance, history[Len(history)].balance), peakBalance))

\* C6: for every result 0 <= winRate <= 100, and winRate = 0 whenever the
\* trade list contains no SELL trade.
WinRateBounds ==
    pc = "done" =>
        /\ Ge(result.winRate, Num(0))
        /\ Le(result.winRate, Num(100))
        /\ (\A k \in DOMAIN result.trades : result.trades[k].type # "SELL")
              => result.winRate = Num(0)

WinRateWitness ==
    /\ pc = "done"
    /\ Gt(result.winRate, Num(0))
    /\ Lt(result.winRate, Num(100))

StrictlyRising == \A k \in 1..(Len(data) - 1) : data[k].close < data[k + 1].close

\* C7: for a strictly rising close series of at least 4 points and period 2,
\* avgLoss = 0 at the seed step and RSI = 100 at index period and at every
\* later index.
RsiSaturatesAt100 ==
    (/\ pc = "loop"
     /\ config.rsiPeriod = 2
     /\ Len(data) >= 4
     /\ StrictlyRising)
    => /\ IsZero(Averages(data, 2, 2)[2])
       /\ \A k \in 2..(Len(data) - 1) : At(rsi, k) = Num(100)

\* C8 (as stated): ALGO mode on the scenario closes with shortWindow 2,
\* longWindow 3, no RSI filter and capital 1000 records exactly one BUY trade
\* and exactly one SELL trade.
ScenarioOneBuyOneSell ==
    (pc = "done" /\ IsScenario) =>
        /\ Cardinality({k \in DOMAIN trades : trades[k].type = "BUY"}) = 1
        /\ Cardinality({k \in DOMAIN trades : trades[k].type = "SELL"}) = 1

\* C8 (amended): the scenario records no SELL trade; with rsiPeriod <= 6 it
\* records exactly one trade, a BUY on the last bar (close 130), and with a
\* longer rsiPeriod it records no trade at all.
ScenarioOneBuyNoSell ==
    (pc = "done" /\ IsScenario) =>
        IF config.rsiPeriod <= 6
        THEN /\ TradeTypes = <<"BUY">>
             /\ trades[1].date = 7
             /\ trades[1].price = Num(130)
        ELSE trades = <<>>

ScenarioWitness ==
    /\ pc = "done"
    /\ IsScenario
    /\ config.rsiPeriod <= 6
    /\ Len(result.trades) = 1

\* C9: runBacktest on a zero-length series fails fast with an InvalidInput
\* error and returns no result.
EmptySeriesInvalidInput ==
    (Len(data) = 0 /\ pc # "start") => (pc = "error" /\ error = "InvalidInput")

ConfigViolation ==
    \/ config.shortWindow <= 0
    \/ config.longWindow <= 0
    \/ config.rsiPeriod <= 0
    \/ config.initialCapital <= 0

\* C10: with a config violation (a window or rsiPeriod <= 0, or
\* initialCapital <= 0) runBacktest fails with an InvalidConfig error before
\* the first bar is processed and never produces a result.
ConfigViolationInvalidConfig ==
    (ConfigViolation /\ pc # "start") => (pc = "error" /\ error = "InvalidConfig")


BarStep == pc = "loop" /\ i < Len(data) /\ i' = i + 1

\* C11: along the path from the provider output to runBacktest, a signal
\* whose action token is neither BUY nor SELL, or whose date matches no bar,
\* causes no trade on its date (the decision there is HOLD) and no error.
UnknownTokenSkipped ==
    [](error = "none") /\
    [][(/\ appPc = "running"
        /\ config.mode = "AI"
        /\ BarStep
        /\ \E k \in DOMAIN rawOutcome.signals :
              /\ rawOutcome.signals[k].date = DateAt(i)
              /\ rawOutcome.signals[k].action \notin {"BUY", "SELL"})
       => (signal' = "HOLD" /\ trades' = trades)]_vars

\* C12: the report appends no trade, also when a position is still open after
\* the last bar, and finalBalance = cash + holdings * (close of the last bar),
\* which equals the balance of the last history entry.
NoAutoClose ==
    pc = "done" =>
        /\ result.trades = trades
        /\ result.history = history
        /\ Len(history) = Len(data)
        /\ result.finalBalance = Add(cash, Mul(holdings, Price(Len(data) - 1)))
        /\ result.finalBalance = history[Len(history)].balance

NoAutoCloseWitness ==
    /\ pc = "done"
    /\ Gt(holdings, Num(0))
    /\ result.trades[Len(result.trades)].type = "BUY"

RECURSIVE CloseSum(_, _)
\* integer sum of the closes of bars from..to (1-based, inclusive)
CloseSum(from, to) ==
    IF from > to THEN 0 ELSE data[to].close + CloseSum(from, to - 1)

\* sma is the SMA of the series for a window w >= 1
IsSmaOf(sma, w) ==
    /\ Len(sma) = Len(data)
    /\ \A k \in 1..Len(data) :
          IF k - 1 < w - 1 THEN sma[k] = NaN
          ELSE /\ ~IsNaN(sma[k])
               /\ Mul(sma[k], Num(w)) = Num(CloseSum(k - w + 1, k))

\* C13: calculateSMA(series, w) has the length of the series, entry i is
\* undefined for i < w - 1 and the exact mean of the closes over
\* [i - w + 1, i] otherwise; closes [10,20,30,40] with w = 2 give
\* [undefined, 15, 25, 35], and w > len(series) gives all undefined, no error.
SmaIsTrailingMean ==
    (pc = "loop" /\ i = 0) =>
        /\ config.shortWindow >= 1 => IsSmaOf(shortSMA, config.shortWindow)
        /\ config.longWindow >= 1 => IsSmaOf(longSMA, config.longWindow)
        /\ data = SeriesOf(SmaExampleCloses) =>
              /\ shortSMA = <<NaN, Num(15), Num(25), Num(35)>>
              /\ longSMA = <<NaN, NaN, NaN, NaN>>

SmaWitness ==
    /\ pc = "loop"
    /\ i = 0
    /\ data = SeriesOf(SmaExampleCloses)
    /\ shortSMA[4] = Num(35)
    /\ config.longWindow > Len(data)


\* C14 (purity of runBacktest, calculateSMA and calculateRSI across two
\* invocations) relates two runs and has no formula over one behaviour.

\* C15: in the AI branch of handleRunBacktest the engine runs only after
\* generateAiTradingSignals has resolved, and on exactly the resolved list.
EngineRunsOnResolvedSignals ==
    (config.mode = "AI" /\ pc # "idle") =>
        /\ appPc \in {"running", "finished"}
        /\ rawOutcome.kind # "pending"
        /\ signalList = <<generateAiTradingSignals(rawOutcome)>>
        /\ aiSignals = signalList[1]
        /\ (pc \in {"loop", "done"} => aiSignalMap = MapOf(signalList[1]))

EngineRunsOnResolvedSignalsWitness ==
    /\ config.mode = "AI"
    /\ appPc = "finished"
    /\ pc = "done"
    /\ Len(aiSignals) >= 2
    /\ Len(results[1].trades) >= 1

\* the bar processed by the last step of the loop
Last == i - 1

AfterAlgoBar ==
    /\ config.mode = "ALGO"
    /\ pc \in {"loop", "done"}
    /\ i >= 1
    /\ Last >= WarmUp

Overbought == config.useRsiFilter /\ Gt(At(rsi, Last), Num(config.rsiOverbought))

\* C16: in ALGO mode with useRsiFilter set, at every post-warm-up bar whose
\* RSI is above rsiOverbought the decision is SELL whatever the crossover
\* state, for every pair of thresholds, rsiOversold > rsiOverbought included.
OverboughtForcesSell ==
    (AfterAlgoBar /\ Overbought) => signal = "SELL"

\* C16 amended: the same for every configuration with
\* rsiOversold <= rsiOverbought.
OverboughtForcesSellOrdered ==
    (AfterAlgoBar /\ Overbought /\ config.rsiOversold <= config.rsiOverbought)
        => signal = "SELL"

OverboughtForcesSellWitness ==
    /\ AfterAlgoBar
    /\ Overbought
    /\ config.rsiOversold <= config.rsiOverbought
    /\ crossoverBuy(Last)
    /\ signal = "SELL"

\* the SMA of window w is defined at 0-based index k
SmaDefined(w, k) == w >= 1 /\ k >= w - 1 /\ k >= 0 /\ k < Len(data)

\* sign of SMAshort[k] - SMAlong[k] from integer window sums; 2 when undefined
SmaOrder(k) ==
    LET sw == config.shortWindow
        lw == config.longWindow
    IN  IF SmaDefined(sw, k) /\ SmaDefined(lw, k)
        THEN LET a == CloseSum(k - sw + 2, k + 1) * lw
                 b == CloseSum(k - lw + 2, k + 1) * sw
             IN  IF a < b THEN -1 ELSE IF a = b THEN 0 ELSE 1
        ELSE 2

GoldenCross(k) == SmaOrder(k - 1) \in {-1, 0} /\ SmaOrder(k) = 1
DeathCross(k) == SmaOrder(k - 1) \in {0, 1} /\ SmaOrder(k) = -1

\* C17: in ALGO mode after warm-up the decision is BUY exactly when
\* SMAshort[i-1] <= SMAlong[i-1], SMAshort[i] > SMAlong[i] and the filter is
\* off or RSI[i] < rsiOversold; with the filter off it is SELL exactly when
\* SMAshort[i-1] >= SMAlong[i-1] and SMAshort[i] < SMAlong[i], and HOLD
\* otherwise; the BUY and SELL crossovers never hold on the same bar.
CrossoverRules ==
    AfterAlgoBar =>
        /\ signal = "BUY" <=>
              /\ GoldenCross(Last)
              /\ \/ ~config.useRsiFilter
                 \/ Lt(At(rsi, Last), Num(config.rsiOversold))
        /\ ~config.useRsiFilter =>
              /\ signal = "SELL" <=> DeathCross(Last)
              /\ signal = "HOLD" <=> (~GoldenCross(Last) /\ ~DeathCross(Last))
        /\ ~(crossoverBuy(Last) /\ crossoverSell(Last))
        /\ ~(GoldenCross(Last) /\ DeathCross(Last))

CrossoverRulesWitness ==
    /\ AfterAlgoBar
    /\ signal = "BUY"
    /\ SmaOrder(Last - 1) = 0
    /\ Len(trades) >= 1
    /\ trades[Len(trades)].date = DateAt(Last)


Min(a, b) == IF a < b THEN a ELSE b

\* C18: in ALGO mode every bar with index i < max(longWindow, rsiPeriod)
\* records no trade and leaves cash and holdings as they were, and a history
\* entry with balance = initialCapital is still appended for each such bar.
WarmUpBarsOnlyRecordCash ==
    (config.mode = "ALGO" /\ pc \in {"loop", "done"}) =>
        /\ Len(history) = i
        /\ \A k \in 1..Min(i, WarmUp) :
              /\ history[k].date = DateAt(k - 1)
              /\ history[k].balance = Num(config.initialCapital)
        /\ \A t \in DOMAIN trades : trades[t].date > WarmUp
        /\ i <= WarmUp => (cash = Num(config.initialCapital) /\ holdings = Num(0))

WarmUpWitness ==
    /\ config.mode = "ALGO"
    /\ pc = "done"
    /\ WarmUp >= 2
    /\ Len(data) > WarmUp
    /\ Len(trades) >= 1
    /\ history[WarmUp].balance = Num(config.initialCapital)

\* an indicator value the rules read at 0-based index k is undefined
NeededUndefined(k) ==
    \/ IsNaN(At(shortSMA, k - 1))
    \/ IsNaN(At(shortSMA, k))
    \/ IsNaN(At(longSMA, k - 1))
    \/ IsNaN(At(longSMA, k))
    \/ (config.useRsiFilter /\ IsNaN(At(rsi, k)))

TradeOn(date) == \E t \in DOMAIN trades : trades[t].date = date

\* C19: whenever an indicator value needed at a post-warm-up bar is undefined
\* the ALGO decision for that bar is HOLD: no trade is recorded and no error
\* is raised.
UndefinedIndicatorHolds ==
    (AfterAlgoBar /\ NeededUndefined(Last)) =>
        /\ signal = "HOLD"
        /\ ~TradeOn(DateAt(Last))
        /\ error = "none"

\* C19 amended: on such a bar the decision is never BUY, no trade is recorded
\* and no error is raised; the decision is SELL when the RSI filter forces it
\* (RSI above rsiOverbought) or a SELL crossover holds, and HOLD otherwise.
UndefinedIndicatorNeverTrades ==
    (AfterAlgoBar /\ NeededUndefined(Last)) =>
        /\ signal # "BUY"
        /\ signal = "SELL" <=> (Overbought \/ DeathCross(Last))
        /\ ~TradeOn(DateAt(Last))
        /\ holdings = Num(0)
        /\ error = "none"

UndefinedIndicatorWitness ==
    /\ AfterAlgoBar
    /\ NeededUndefined(Last)
    /\ config.shortWindow > config.longWindow
    /\ Gt(At(shortSMA, Last), At(longSMA, Last))
    /\ signal = "SELL"

\* the decision the signal list gives for a date: the action of its last
\* entry with that date, HOLD when it has none
ListedAction(date) ==
    LET ks == {k \in DOMAIN aiSignals : aiSignals[k].date = date}
    IN  IF ks = {} THEN "HOLD"
        ELSE aiSignals[CHOOSE k \in ks : \A j \in ks : j <= k].action

\* C20: in AI mode the decision at a bar is the action of the external signal
\* with the bar's date and HOLD when there is none, from index 0 on (no
\* warm-up); with no signal matching any bar the run records no trade.
AiDecisionIsListedAction ==
    (config.mode = "AI" /\ pc \in {"loop", "done"}) =>
        /\ Len(history) = i
        /\ i >= 1 => signal = ListedAction(DateAt(Last))
        /\ \A t \in DOMAIN trades :
              trades[t].type = ListedAction(trades[t].date)

AiDecisionWitness ==
    /\ config.mode = "AI"
    /\ pc = "done"
    /\ Len(trades) >= 2
    /\ trades[1].date = DateAt(0)
    /\ \E k \in DOMAIN aiSignals : aiSignals[k].date = 0


LastTrade == trades[Len(trades)]

\* C21: a BUY decision executes only if cash > close; when it executes it
\* spends exactly 99% of the cash held before the trade, so cash becomes 1% of
\* the pre-trade cash and holdings grow by (0.99 * preCash) / close; when
\* cash <= close the BUY is dropped and cash, holdings and trades stay as
\* they were.
BuySpendsNinetyNinePercent ==
    [][(BarStep /\ signal' = "BUY") =>
        IF Gt(cash, Price(i))
        THEN /\ cash' = Mul(cash, <<1, 100>>)
             /\ holdings' = Add(holdings, Div(Mul(cash, <<99, 100>>), Price(i)))
             /\ trades' = Append(trades, trades'[Len(trades')])
             /\ trades'[Len(trades')].type = "BUY"
             /\ trades'[Len(trades')].date = DateAt(i)
             /\ trades'[Len(trades')].amount = Sub(holdings', holdings)
        ELSE /\ cash' = cash
             /\ holdings' = holdings
             /\ trades' = trades]_vars

BuyWitness ==
    /\ pc = "loop"
    /\ signal = "BUY"
    /\ trades # <<>>
    /\ LastTrade.type = "BUY"
    /\ LastTrade.date = DateAt(Last)
    /\ cash = Mul(Num(config.initialCapital), <<1, 100>>)
    /\ Gt(holdings, Num(0))

\* C22: a SELL decision executes only if holdings > 0 and is total:
\* afterwards holdings = 0, cash = preCash + preHoldings * close, and the
\* recorded trade's amount is the full pre-trade holdings.
SellIsTotal ==
    [][(BarStep /\ signal' = "SELL") =>
        IF Gt(holdings, Num(0))
        THEN /\ holdings' = Num(0)
             /\ cash' = Add(cash, Mul(holdings, Price(i)))
             /\ trades' = Append(trades, trades'[Len(trades')])
             /\ trades'[Len(trades')].type = "SELL"
             /\ trades'[Len(trades')].date = DateAt(i)
             /\ trades'[Len(trades')].amount = holdings
        ELSE /\ cash' = cash
             /\ holdings' = holdings
             /\ trades' = trades]_vars

SellWitness ==
    /\ pc = "loop"
    /\ signal = "SELL"
    /\ trades # <<>>
    /\ LastTrade.type = "SELL"
    /\ LastTrade.date = DateAt(Last)
    /\ Gt(LastTrade.amount, Num(0))
    /\ holdings = Num(0)

\* the BUY trade a SELL at position k is paired with: the nearest one before it
PairedBuy(k) ==
    LET buys == {j \in 1..(k - 1) : result.trades[j].type = "BUY"}
    IN  CHOOSE j \in buys : \A m \in buys : m <= j

SellPositions == {k \in DOMAIN result.trades : result.trades[k].type = "SELL"}

ProfitableSells ==
    {k \in SellPositions :
        /\ \E j \in 1..(k - 1) : result.trades[j].type = "BUY"
        /\ Gt(result.trades[k].price, result.trades[PairedBuy(k)].price)}

\* C23: winRate = 100 * (number of SELL trades whose price is strictly greater
\* than the price of the nearest preceding BUY trade) / (number of SELL
\* trades); a SELL at the price of its paired BUY counts as not profitable.
WinRateIsShareOfProfitableSells ==
    (pc = "done" /\ SellPositions # {}) =>
        Mul(result.winRate, Num(Cardinality(SellPositions)))
            = Num(100 * Cardinality(ProfitableSells))

WinRateShareWitness ==
    /\ pc = "done"
    /\ Cardinality(SellPositions) = 2
    /\ Cardinality(ProfitableSells) = 1
    /\ \E k \in SellPositions :
          result.trades[k].price = result.trades[PairedBuy(k)].price

\* C24: the trade list is chronological, with strictly increasing bar dates
\* (so at most one trade per bar), and a trade once appended is never modified
\* or removed by later bars; the returned list is that list.
TradesChronological ==
    /\ [](/\ \A k \in 1..(Len(trades) - 1) : trades[k].date < trades[k + 1].date
          /\ \A k \in DOMAIN trades : trades[k].date \in 1..i
          /\ pc = "done" => result.trades = trades)
    /\ [][\A k \in DOMAIN trades :
            k \in DOMAIN trades' /\ trades'[k] = trades[k]]_vars

TradesChronologicalWitness ==
    /\ pc = "done"
    /\ Len(result.trades) >= 3
    /\ result.trades[3].date = Len(data)

\* C25: after every bar holdings > 0 exactly when the most recent trade is a
\* BUY, and holdings = 0 exactly when the list is empty or ends with a SELL;
\* so every SELL trade has a BUY trade before it and the win-rate pairing
\* never uses the default entry price 0.
HoldingsFollowLastTrade ==
    pc \in {"loop", "done"} =>
        /\ Gt(holdings, Num(0)) <=> (trades # <<>> /\ LastTrade.type = "BUY")
        /\ holdings = Num(0) <=> (trades = <<>> \/ LastTrade.type = "SELL")
        /\ \A k \in DOMAIN trades :
              trades[k].type = "SELL" =>
                  /\ \E j \in 1..(k - 1) : trades[j].type = "BUY"
                  /\ Gt(EntryPrice(trades, k), Num(0))

HoldingsFollowLastTradeWitness ==
    /\ pc = "loop"
    /\ Len(trades) >= 2
    /\ LastTrade.type = "BUY"
    /\ trades[Len(trades) - 1].type = "BUY"
    /\ Gt(holdings, Num(0))

\* C26 (mode isolation: equal results for any two signal lists in ALGO mode,
\* equal trades and history for any two indicator settings in AI mode)
\* relates two runs and has no formula over one behaviour.


AllLoadsDone == \A k \in DOMAIN loads : loads[k].status = "done"

\* C27: when the symbol or exchange changes while an earlier fetchMarketData
\* is in flight, the marketData and isSimulation that end up stored are those
\* of the most recently requested symbol, whatever order the fetches complete
\* in: a late response of an older request never overwrites a newer one.
StoredDataIsLatestRequest ==
    /\ [](AllLoadsDone =>
            /\ marketData.symbol = symbol
            /\ marketData.request = Len(loads))
    /\ [][marketData'.request >= marketData.request]_vars

\* C28: every AI run that sets isAiTrading eventually clears it and stores a
\* result, whatever the provider call does (success, nothing, failure); the
\* Run button is never locked for good and at most one AI run is in flight.
AiRunsTerminate ==
    /\ [](/\ Len(runs) <= 1
          /\ isAiTrading <=> runs # <<>>)
    /\ (isAiTrading ~> (~isAiTrading /\ results # <<>>))

AiRunsTerminateWitness ==
    /\ ~isAiTrading
    /\ results # <<>>
    /\ rawOutcome.kind = "throw"
    /\ config.mode = "AI"
    /\ \E k \in DOMAIN loads : loads[k].status = "pending"

FailedOutcome == rawOutcome.kind \in {"throw", "empty", "malformed"}

\* C29: generateAiTradingSignals never rejects: on a provider error, an empty
\* response or unparseable JSON it resolves to the empty list, and runBacktest
\* in AI mode with that list records no trade and returns finalBalance =
\* initialCapital, totalReturn = 0, winRate = 0 and maxDrawdown = 0.
FailedProviderGivesFlatRun ==
    FailedOutcome =>
        /\ signalList = <<<<>>>>
        /\ error = "none"
        /\ pc # "idle" => aiSignals = <<>>
        /\ appPc = "finished" =>
              /\ results[1].trades = <<>>
              /\ results[1].finalBalance = Num(config.initialCapital)
              /\ results[1].totalReturn = Num(0)
              /\ results[1].winRate = Num(0)
              /\ results[1].maxDrawdown = Num(0)

FailedProviderWitness ==
    /\ rawOutcome.kind = "malformed"
    /\ appPc = "finished"
    /\ Len(results[1].history) = MaxLen
    /\ results[1].finalBalance = Num(config.initialCapital)

\* C30: fetchMarketData never rejects and always resolves to a non-empty
\* series: when the live fetch throws, returns a non-OK status or an empty
\* list it resolves to the 365-bar synthetic series with isSimulation = true;
\* isSimulation is false exactly when a non-empty live series was returned.
FetchAlwaysGivesSeries ==
    fetched.outcome.kind # "none" =>
        LET out == fetched.outcome
            r == fetched.result
            live == out.kind = "list" /\ out.len > 0
        IN  /\ ~r.rejected
            /\ r.len > 0
            /\ r.isSimulation <=> ~live
            /\ r.isSimulation => r.len = SyntheticDays
            /\ ~r.isSimulation => r.len = out.len
            /\ marketData.len > 0

FetchWitness ==
    /\ fetched.outcome = [kind |-> "list", len |-> 0]
    /\ fetched.result.isSimulation
    /\ isSimulation
    /\ marketData.len = SyntheticDays
    /\ AllLoadsDone

=============================================================================



